---- MODULE Spec2Model ----
(***************************************************************************)
(* ECS registry (World) and entity handle (Entity) of architecture.py.     *)
(*                                                                         *)
(* Every registry is a record with the fields World.__init__ creates.      *)
(* Dictionaries are functions whose DOMAIN is the set of keys present, so  *)
(* the keys a defaultdict inserts on a missing lookup are visible.         *)
(* A method is an operator from the registry (and its arguments) to the    *)
(* registry it leaves behind and the exception it raised ("none" when it   *)
(* returned); a statement that raises leaves the effects of the statements *)
(* before it in place.                                                     *)
(*                                                                         *)
(* Entity.relate, Entity.unrelate and World.delete_entity read the global  *)
(* name `world`, not self.world; the variable world holds the registry     *)
(* that name is bound to.  Under Spec the program has built one registry   *)
(* and bound `world` to it.                                                *)
(*                                                                         *)
(* A caller keeps the handles create_entity returned, so the methods of a  *)
(* handle can be called for every id created so far, deleted ones          *)
(* included.                                                               *)
(***************************************************************************)
EXTENDS Integers, FiniteSets, Sequences, TLC

\* ---------------------------------------------------------------- bounds
\* total number of create_entity calls over all registries
MaxEntities == 2
\* largest number of criteria handed to one query, over its three lists
MaxQueryLen == 2

\* ------------------------------------------------------- input alphabets
CompKeys == {"hp"}
Values == {1}
Tags == {"enemy"}
RelNames == {"parent"}
\* entity ids a caller may pass (one more than can ever be created)
Ids == 0..MaxEntities

VARIABLES
    worlds,   \* registry -> World instance
    world,    \* the registry bound to the global name `world`
    last      \* the call that ran last, with its outcome

vars == <<worlds, world, last>>

\* ------------------------------------------------------ dict primitives
EmptyMap == [x \in {} |-> {}]

\* d[k] = v
Put(d, k, v) == [x \in (DOMAIN d) \cup {k} |-> IF x = k THEN v ELSE d[x]]

\* del d[k]
Del(d, k) == [x \in (DOMAIN d) \ {k} |-> d[x]]

\* the defaultdict d after the lookup d[k]: a missing key is inserted
Touch(d, k, default) == IF k \in DOMAIN d THEN d ELSE Put(d, k, default)

\* ------------------------------------------------------------- outcomes
Ok(W) == [W |-> W, err |-> "none"]

Raise(W, e) == [W |-> W, err |-> e]

\* ------------------------------------------------------- World.__init__
World_init ==
    [entities   |-> {},
     components |-> EmptyMap,
     tags       |-> EmptyMap,
     relations  |-> EmptyMap,
     eid_comps  |-> EmptyMap,
     eid_tags   |-> EmptyMap,
     eid_rels   |-> EmptyMap,
     next_id    |-> 0]

\* mutant: the constructor without its liveness check
Entity_init_unchecked(W, eid) == Ok(W)

\* ------------------------------------------------------ Entity.__init__
\* the constructor raises NameError for an id that is not live in the
\* registry it is handed
Entity_init(W, eid) ==
    IF eid \notin W.entities THEN Raise(W, "NameError") ELSE Ok(W)

\* --------------------------------------------------- Entity.__getitem__
Entity_getitem(W, eid, c) ==
    LET W1 == [W EXCEPT !.components = Touch(@, c, EmptyMap)]
    IN  IF eid \notin DOMAIN W1.components[c]
        THEN Raise(W1, "KeyError")
        ELSE Ok(W1)

\* mutant: __setitem__ that writes the component table before the
\* per-entity set
Entity_setitem_table_first(W, eid, c, v) ==
    LET W1 == [W EXCEPT !.components = Touch(@, c, EmptyMap)]
        W2 == [W1 EXCEPT !.components[c] = Put(@, eid, v)]
    IN  IF eid \notin DOMAIN W2.eid_comps
        THEN Raise(W2, "KeyError")
        ELSE Ok([W2 EXCEPT !.eid_comps[eid] = @ \cup {c}])

\* --------------------------------------------------- Entity.__setitem__
Entity_setitem(W, eid, c, v) ==
    IF eid \notin DOMAIN W.eid_comps
    THEN Raise(W, "KeyError")
    ELSE LET W1 == [W EXCEPT !.eid_comps[eid] = @ \cup {c}]
             W2 == [W1 EXCEPT !.components = Touch(@, c, EmptyMap)]
         IN  Ok([W2 EXCEPT !.components[c] = Put(@, eid, v)])

\* mutant: __delitem__ that leaves the key in the per-entity set
Entity_delitem_keeps_key(W, eid, c) ==
    LET W1 == [W EXCEPT !.components = Touch(@, c, EmptyMap)]
    IN  IF eid \notin DOMAIN W1.components[c]
        THEN Raise(W1, "KeyError")
        ELSE Ok([W1 EXCEPT !.components[c] = Del(@, eid)])

\* --------------------------------------------------- Entity.__delitem__
Entity_delitem(W, eid, c) ==
    LET W1 == [W EXCEPT !.components = Touch(@, c, EmptyMap)]
    IN  IF eid \notin DOMAIN W1.components[c]
        THEN Raise(W1, "KeyError")
        ELSE LET W2 == [W1 EXCEPT !.components[c] = Del(@, eid)]
             IN  IF eid \notin DOMAIN W2.eid_comps
                 THEN Raise(W2, "KeyError")
                 ELSE IF c \notin W2.eid_comps[eid]
                 THEN Raise(W2, "KeyError")
                 ELSE Ok([W2 EXCEPT !.eid_comps[eid] = @ \ {c}])

\* ----------------------------------------------------------- Entity.tag
Entity_tag(W, eid, t) ==
    IF eid \notin DOMAIN W.eid_tags
    THEN Raise(W, "KeyError")
    ELSE IF t \in W.eid_tags[eid]
    THEN Ok(W)
    ELSE LET W1 == [W EXCEPT !.eid_tags[eid] = @ \cup {t}]
             W2 == [W1 EXCEPT !.tags = Touch(@, t, {})]
         IN  Ok([W2 EXCEPT !.tags[t] = @ \cup {eid}])

\* mutant: untag that leaves an emptied tags[t] in the table
Entity_untag_no_prune(W, eid, t) ==
    IF eid \notin DOMAIN W.eid_tags
    THEN Raise(W, "KeyError")
    ELSE IF t \notin W.eid_tags[eid]
    THEN Ok(W)
    ELSE LET W1 == [W EXCEPT !.eid_tags[eid] = @ \ {t}]
             W2 == [W1 EXCEPT !.tags = Touch(@, t, {})]
         IN  IF eid \notin W2.tags[t]
             THEN Raise(W2, "KeyError")
             ELSE Ok([W2 EXCEPT !.tags[t] = @ \ {eid}])

\* mutant: untag that leaves the entity in tags[t]
Entity_untag_keeps_member(W, eid, t) ==
    IF eid \notin DOMAIN W.eid_tags
    THEN Raise(W, "KeyError")
    ELSE IF t \notin W.eid_tags[eid]
    THEN Ok(W)
    ELSE Ok([W EXCEPT !.eid_tags[eid] = @ \ {t}])

\* --------------------------------------------------------- Entity.untag
Entity_untag(W, eid, t) ==
    IF eid \notin DOMAIN W.eid_tags
    THEN Raise(W, "KeyError")
    ELSE IF t \notin W.eid_tags[eid]
    THEN Ok(W)
    ELSE LET W1 == [W EXCEPT !.eid_tags[eid] = @ \ {t}]
             W2 == [W1 EXCEPT !.tags = Touch(@, t, {})]
         IN  IF eid \notin W2.tags[t]
             THEN Raise(W2, "KeyError")
             ELSE LET W3 == [W2 EXCEPT !.tags[t] = @ \ {eid}]
                  IN  IF W3.tags[t] = {}
                      THEN Ok([W3 EXCEPT !.tags = Del(@, t)])
                      ELSE Ok(W3)

\* mutant: relate that leaves the entity in its old target's source set
Entity_relate_detach_skipped(W, eid, r) == Ok(W)

\* -------------------------------------------------------- Entity.relate
\* G is the live set of the registry the global name `world` denotes
Entity_relate_detach(W, eid, r) ==
    IF r \notin DOMAIN W.eid_rels[eid]
    THEN Ok(W)
    ELSE LET old == W.eid_rels[eid][r]
         IN  IF old \notin DOMAIN W.relations[r]
             THEN Raise(W, "KeyError")
             ELSE IF eid \notin W.relations[r][old]
             THEN Raise(W, "KeyError")
             ELSE Ok([W EXCEPT !.relations[r][old] = @ \ {eid}])

Entity_relate(W, G, eid, r, other_id) ==
    IF other_id \notin G
    THEN Raise(W, "NameError")
    ELSE LET W1 == [W EXCEPT !.relations = Touch(@, r, EmptyMap)]
         IN  IF eid \notin DOMAIN W1.eid_rels
             THEN Raise(W1, "KeyError")
             ELSE LET d == Entity_relate_detach(W1, eid, r)
                  IN  IF d.err # "none"
                      THEN d
                      ELSE LET W2 == [d.W EXCEPT !.eid_rels[eid] =
                                                    Put(@, r, other_id)]
                               W3 == [W2 EXCEPT !.relations[r] =
                                                    Touch(@, other_id, {})]
                           IN  Ok([W3 EXCEPT !.relations[r][other_id] =
                                                    @ \cup {eid}])

\* ------------------------------------------------------ Entity.unrelate
Entity_unrelate(W, G, eid, r, other_id) ==
    IF other_id \notin G
    THEN Raise(W, "NameError")
    ELSE LET W1 == [W EXCEPT !.relations = Touch(@, r, EmptyMap)]
         IN  IF other_id \notin DOMAIN W1.relations[r]
             THEN Raise(W1, "KeyError")
             ELSE IF eid \notin DOMAIN W1.eid_rels
             THEN Raise(W1, "KeyError")
             ELSE IF r \notin DOMAIN W1.eid_rels[eid]
             THEN Raise(W1, "KeyError")
             ELSE LET W2 == [W1 EXCEPT !.eid_rels[eid] = Del(@, r)]
                  IN  IF eid \notin W2.relations[r][other_id]
                      THEN Raise(W2, "KeyError")
                      ELSE LET W3 == [W2 EXCEPT !.relations[r][other_id] =
                                                    @ \ {eid}]
                           IN  IF W3.relations[r][other_id] = {}
                               THEN Ok([W3 EXCEPT !.relations[r] =
                                                    Del(@, other_id)])
                               ELSE Ok(W3)

\* mutant: create_entity that does not advance the counter
World_create_entity_same_id(W) ==
    LET eid == W.next_id
    IN  [W EXCEPT !.entities  = @ \cup {eid},
                  !.eid_comps = Put(@, eid, {}),
                  !.eid_tags  = Put(@, eid, {}),
                  !.eid_rels  = Put(@, eid, EmptyMap)]

\* -------------------------------------------------- World.create_entity
World_create_entity(W) ==
    LET eid == W.next_id
    IN  [W EXCEPT !.next_id   = @ + 1,
                  !.entities  = @ \cup {eid},
                  !.eid_comps = Put(@, eid, {}),
                  !.eid_tags  = Put(@, eid, {}),
                  !.eid_rels  = Put(@, eid, EmptyMap)]

\* -------------------------------------------------- World.delete_entity
\* The loops run over list(...) snapshots of sets and dictionaries; the
\* order of such a snapshot is not fixed by the code, and a loop that
\* raises stops where it is, so each loop yields the set of outcomes over
\* all orders.

\* for comp in list(entity.components): del entity[comp]
RECURSIVE DeleteComps(_, _, _)
DeleteComps(W, eid, S) ==
    IF S = {}
    THEN {Ok(W)}
    ELSE UNION { LET r == Entity_delitem(W, eid, c)
                 IN  IF r.err # "none" THEN {r}
                     ELSE DeleteComps(r.W, eid, S \ {c}) : c \in S }

\* for tag in list(entity.tags): entity.untag(tag)
RECURSIVE DeleteTags(_, _, _)
DeleteTags(W, eid, S) ==
    IF S = {}
    THEN {Ok(W)}
    ELSE UNION { LET r == Entity_untag(W, eid, t)
                 IN  IF r.err # "none" THEN {r}
                     ELSE DeleteTags(r.W, eid, S \ {t}) : t \in S }

\* for rel in list(entity.relations):
\*     entity.unrelate(rel, entity.relations[rel])
RECURSIVE DeleteRels(_, _, _, _)
DeleteRels(W, G, eid, S) ==
    IF S = {}
    THEN {Ok(W)}
    ELSE UNION { LET r == Entity_unrelate(W, G, eid, rel,
                                          W.eid_rels[eid][rel])
                 IN  IF r.err # "none" THEN {r}
                     ELSE DeleteRels(r.W, G, eid, S \ {rel}) : rel \in S }

\* lines 105-114: the entity's own facets, then its per-entity records
DeleteOwn(W, G, eid) ==
    IF Entity_init(W, eid).err # "none"
    THEN {Entity_init(W, eid)}
    ELSE IF eid \notin DOMAIN W.eid_comps
    THEN {Raise(W, "KeyError")}
    ELSE UNION { IF a.err # "none" THEN {a}
       ELSE IF eid \notin DOMAIN a.W.eid_tags THEN {Raise(a.W, "KeyError")}
       ELSE UNION { IF b.err # "none" THEN {b}
          ELSE IF eid \notin DOMAIN b.W.eid_rels
               THEN {Raise(b.W, "KeyError")}
          ELSE UNION { IF c.err # "none" THEN {c}
             ELSE {Ok([c.W EXCEPT !.eid_comps = Del(@, eid),
                                  !.eid_tags  = Del(@, eid),
                                  !.eid_rels  = Del(@, eid)])}
             : c \in DeleteRels(b.W, G, eid, DOMAIN b.W.eid_rels[eid]) }
          : b \in DeleteTags(a.W, eid, a.W.eid_tags[eid]) }
       : a \in DeleteComps(W, eid, W.eid_comps[eid]) }

\* for cid in list(...): child = Entity(cid, world)
\*                       child.unrelate(relation, eid)
\* the child handle is bound to the registry g that `world` denotes
RECURSIVE CascadeChildren(_, _, _, _, _)
CascadeChildren(ws, g, eid, relation, S) ==
    IF S = {}
    THEN {[ws |-> ws, err |-> "none"]}
    ELSE UNION {
        IF Entity_init(ws[g], cid).err # "none"
        THEN {[ws |-> ws, err |-> "NameError"]}
        ELSE LET r == Entity_unrelate(ws[g], ws[g].entities,
                                      cid, relation, eid)
                 ws1 == [ws EXCEPT ![g] = r.W]
             IN  IF r.err # "none"
                 THEN {[ws |-> ws1, err |-> r.err]}
                 ELSE CascadeChildren(ws1, g, eid, relation, S \ {cid})
        : cid \in S }

\* self.relations[relation].get(eid, set())
Sources(W, relation, eid) ==
    IF eid \in DOMAIN W.relations[relation]
    THEN W.relations[relation][eid]
    ELSE {}

\* for relation in self.relations: ...
RECURSIVE CascadeRelations(_, _, _, _, _)
CascadeRelations(ws, g, s, eid, R) ==
    IF R = {}
    THEN {[ws |-> ws, err |-> "none"]}
    ELSE UNION {
        UNION { IF c.err # "none" THEN {c}
                ELSE CascadeRelations(c.ws, g, s, eid, R \ {relation})
                : c \in CascadeChildren(ws, g, eid, relation,
                                        Sources(ws[s], relation, eid)) }
        : relation \in R }

\* mutant: delete_entity that leaves the id in the live set
World_delete_entity_keeps_live(ws, g, s, eid) ==
    UNION {
        IF o.err # "none"
        THEN {[ws |-> [ws EXCEPT ![s] = o.W], err |-> o.err]}
        ELSE CascadeRelations([ws EXCEPT ![s] = o.W], g, s, eid,
                              DOMAIN o.W.relations)
        : o \in DeleteOwn(ws[s], ws[g].entities, eid) }

\* the outcomes of self.delete_entity(eid) on registry s
World_delete_entity(ws, g, s, eid) ==
    UNION {
        IF o.err # "none"
        THEN {[ws |-> [ws EXCEPT ![s] = o.W], err |-> o.err]}
        ELSE LET ws1 == [ws EXCEPT ![s] = o.W]
             IN  { IF c.err # "none" THEN c
                   ELSE [ws  |-> [c.ws EXCEPT ![s].entities = @ \ {eid}],
                         err |-> "none"]
                   : c \in CascadeRelations(ws1, g, s, eid,
                                            DOMAIN ws1[s].relations) }
        : o \in DeleteOwn(ws[s], ws[g].entities, eid) }

\* ---------------------------------------------------------- World.query
\* list.sort(key=len): stable insertion by ascending size
InsertByLen(sorted, x) ==
    LET k == Cardinality({i \in 1..Len(sorted) :
                            Cardinality(sorted[i]) <= Cardinality(x)})
    IN  SubSeq(sorted, 1, k) \o <<x>> \o SubSeq(sorted, k + 1, Len(sorted))

RECURSIVE SortByLen(_)
SortByLen(sets) ==
    IF sets = <<>>
    THEN <<>>
    ELSE InsertByLen(SortByLen(SubSeq(sets, 1, Len(sets) - 1)),
                     sets[Len(sets)])

\* set.intersection(*sets) for a non-empty list
RECURSIVE Intersection(_)
Intersection(sets) ==
    IF Len(sets) = 1
    THEN sets[1]
    ELSE sets[1] \cap Intersection(Tail(sets))

\* the defaultdict after looking up every key of the list
RECURSIVE TouchAll(_, _, _)
TouchAll(d, keys, default) ==
    IF keys = <<>>
    THEN d
    ELSE TouchAll(Touch(d, Head(keys), default), Tail(keys), default)

\* comps, tags: lists of keys; rels: list of <<relation, target>>
World_query(W, comps, tags, rels) ==
    LET W1 == [W EXCEPT
                 !.components = TouchAll(@, comps, EmptyMap),
                 !.tags       = TouchAll(@, tags, {}),
                 !.relations  = TouchAll(@, [i \in 1..Len(rels) |->
                                                rels[i][1]], EmptyMap)]
        comp_sets == SortByLen([i \in 1..Len(comps) |->
                                   DOMAIN W1.components[comps[i]]])
        tag_sets  == SortByLen([i \in 1..Len(tags) |-> W1.tags[tags[i]]])
        rel_sets  == SortByLen([i \in 1..Len(rels) |->
                                   Sources(W1, rels[i][1], rels[i][2])])
        comp_set == IF comp_sets # <<>> THEN Intersection(comp_sets) ELSE {}
        tag_set  == IF tag_sets # <<>> THEN Intersection(tag_sets) ELSE {}
        rel_set  == IF rel_sets # <<>> THEN Intersection(rel_sets) ELSE {}
        queried_sets ==
            (IF comps # <<>> THEN <<comp_set>> ELSE <<>>) \o
            (IF tags # <<>> THEN <<tag_set>> ELSE <<>>) \o
            (IF rels # <<>> THEN <<rel_set>> ELSE <<>>)
    IN  IF queried_sets = <<>>
        THEN [W |-> W1, err |-> "TypeError", ret |-> {}]
        ELSE [W |-> W1, err |-> "none", ret |-> Intersection(queried_sets)]

\* ------------------------------------------------------------ the calls
\* the record of a call: its name, the exception it raised and, for relate,
\* the handle's recorded target before the call (-1: none, as for any
\* other call)
Call(op, err) == [op |-> op, err |-> err, old_target |-> -1]

\* e's recorded current target for r, -1 when there is none
Target(W, eid, r) ==
    IF eid \in DOMAIN W.eid_rels /\ r \in DOMAIN W.eid_rels[eid]
    THEN W.eid_rels[eid][r]
    ELSE -1

\* the source set relations[r][t], empty when the bucket does not exist
Bucket(W, r, t) ==
    IF r \in DOMAIN W.relations /\ t \in DOMAIN W.relations[r]
    THEN W.relations[r][t]
    ELSE {}

RECURSIVE SumNextId(_, _)
SumNextId(ws, S) ==
    IF S = {}
    THEN 0
    ELSE LET w == CHOOSE x \in S : TRUE
         IN  ws[w].next_id + SumNextId(ws, S \ {w})

\* the registries that have been constructed
Worlds == DOMAIN worlds

\* handles exist for the ids create_entity has returned
Handles(w) == 0..(worlds[w].next_id - 1)

\* argument lists of query
ListsOver(S) == UNION {[1..n -> S] : n \in 0..MaxQueryLen}

\* one registry, which the global name `world` denotes
Init ==
    /\ worlds = [w \in {1} |-> World_init]
    /\ world = 1
    /\ last = Call("init", "none")

create_entity(w) ==
    /\ SumNextId(worlds, Worlds) < MaxEntities
    /\ worlds' = [worlds EXCEPT ![w] = World_create_entity(@)]
    /\ last' = Call("create_entity", "none")
    /\ UNCHANGED world

delete_entity(w, eid) ==
    /\ \E o \in World_delete_entity(worlds, world, w, eid) :
          /\ worlds' = o.ws
          /\ last' = Call("delete_entity", o.err)
    /\ UNCHANGED world

\* Entity(eid, worlds[w])
handle_for(w, eid) ==
    /\ last' = Call("Entity", Entity_init(worlds[w], eid).err)
    /\ UNCHANGED <<worlds, world>>

get(w, eid, c) ==
    LET o == Entity_getitem(worlds[w], eid, c)
    IN  /\ worlds' = [worlds EXCEPT ![w] = o.W]
        /\ last' = Call("get", o.err)
        /\ UNCHANGED world

set(w, eid, c, v) ==
    LET o == Entity_setitem(worlds[w], eid, c, v)
    IN  /\ worlds' = [worlds EXCEPT ![w] = o.W]
        /\ last' = Call("set", o.err)
        /\ UNCHANGED world

remove(w, eid, c) ==
    LET o == Entity_delitem(worlds[w], eid, c)
    IN  /\ worlds' = [worlds EXCEPT ![w] = o.W]
        /\ last' = Call("remove", o.err)
        /\ UNCHANGED world

tag(w, eid, t) ==
    LET o == Entity_tag(worlds[w], eid, t)
    IN  /\ worlds' = [worlds EXCEPT ![w] = o.W]
        /\ last' = Call("tag", o.err)
        /\ UNCHANGED world

untag(w, eid, t) ==
    LET o == Entity_untag(worlds[w], eid, t)
    IN  /\ worlds' = [worlds EXCEPT ![w] = o.W]
        /\ last' = Call("untag", o.err)
        /\ UNCHANGED world

relate(w, eid, r, other_id) ==
    LET o == Entity_relate(worlds[w], worlds[world].entities,
                           eid, r, other_id)
    IN  /\ worlds' = [worlds EXCEPT ![w] = o.W]
        /\ last' = [Call("relate", o.err) EXCEPT
                       !.old_target = Target(worlds[w], eid, r)]
        /\ UNCHANGED world

unrelate(w, eid, r, other_id) ==
    LET o == Entity_unrelate(worlds[w], worlds[world].entities,
                             eid, r, other_id)
    IN  /\ worlds' = [worlds EXCEPT ![w] = o.W]
        /\ last' = Call("unrelate", o.err)
        /\ UNCHANGED world

query(w, comps, tags, rels) ==
    LET o == World_query(worlds[w], comps, tags, rels)
    IN  /\ worlds' = [worlds EXCEPT ![w] = o.W]
        /\ last' = Call("query", o.err)
        /\ UNCHANGED world

Next ==
    \/ \E w \in Worlds : create_entity(w)
    \/ \E w \in Worlds, eid \in Ids : delete_entity(w, eid)
    \/ \E w \in Worlds, eid \in Ids : handle_for(w, eid)
    \/ \E w \in Worlds : \E eid \in Handles(w), c \in CompKeys :
          get(w, eid, c)
    \/ \E w \in Worlds : \E eid \in Handles(w), c \in CompKeys,
          v \in Values : set(w, eid, c, v)
    \/ \E w \in Worlds : \E eid \in Handles(w), c \in CompKeys :
          remove(w, eid, c)
    \/ \E w \in Worlds : \E eid \in Handles(w), t \in Tags : tag(w, eid, t)
    \/ \E w \in Worlds : \E eid \in Handles(w), t \in Tags :
          untag(w, eid, t)
    \/ \E w \in Worlds : \E eid \in Handles(w), r \in RelNames,
          other_id \in Ids : relate(w, eid, r, other_id)
    \/ \E w \in Worlds : \E eid \in Handles(w), r \in RelNames,
          other_id \in Ids : unrelate(w, eid, r, other_id)
    \/ \E w \in Worlds : \E comps \in ListsOver(CompKeys),
          tags \in ListsOver(Tags),
          rels \in ListsOver(RelNames \X Ids) :
          /\ Len(comps) + Len(tags) + Len(rels) <= MaxQueryLen
          /\ query(w, comps, tags, rels)

Spec == Init /\ [][Next]_vars

\* =============================================================== claims

\* C1: relation index consistency. After every call, for every live entity
\* e, relation name r and target t: eid_rels[e][r] = t exactly when e is a
\* member of relations[r][t].
C1_RelationIndexConsistency ==
    \A w \in Worlds : \A e \in worlds[w].entities, r \in RelNames, t \in Ids :
        (Target(worlds[w], e, r) = t) <=> (e \in Bucket(worlds[w], r, t))

\* C2: relation exclusivity. In every reachable state an entity id is a
\* member of relations[r][t] for at most one target t.
C2_RelationExclusivity ==
    \A w \in Worlds : \A e \in Ids, r \in RelNames, t1 \in Ids, t2 \in Ids :
        (e \in Bucket(worlds[w], r, t1) /\ e \in Bucket(worlds[w], r, t2))
            => t1 = t2

\* C3: re-relating replaces the edge. Whenever relate(e, r, b) returns
\* while e's recorded target for r is a, a # b, then afterwards e's
\* recorded target for r is b, e is in relations[r][b] and e is not in
\* relations[r][a].
C3_RelateReplacesEdge ==
    [][(last'.op = "relate" /\ last'.err = "none") =>
          \A w \in Worlds : \A e \in Handles(w), r \in RelNames, b \in Ids :
            LET a == Target(worlds[w], e, r)
            IN  (a # -1 /\ a # b /\ relate(w, e, r, b))
                  => /\ Target(worlds'[w], e, r) = b
                     /\ e \in Bucket(worlds'[w], r, b)
                     /\ e \notin Bucket(worlds'[w], r, a)]_vars

\* a relate that returned after replacing the target a by b # a
C3_Witness ==
    /\ last.op = "relate"
    /\ last.err = "none"
    /\ last.old_target # -1
    /\ \E w \in Worlds : \E e \in worlds[w].entities, r \in RelNames :
          /\ Target(worlds[w], e, r) \notin {-1, last.old_target}
          /\ e \in Bucket(worlds[w], r, Target(worlds[w], e, r))

\* x appears in no component map, tag set or relation source set of W
AbsentFromTables(W, x) ==
    /\ \A k \in DOMAIN W.components : x \notin DOMAIN W.components[k]
    /\ \A t \in DOMAIN W.tags : x \notin W.tags[t]
    /\ \A r \in DOMAIN W.relations : \A t \in DOMAIN W.relations[r] :
          x \notin W.relations[r][t]

\* no live entity of W records x as its current target
NoLiveSourceOf(W, x) ==
    \A e \in W.entities : \A r \in RelNames : Target(W, e, r) # x

\* C4: cascade delete. After delete_entity(x) returns, x is absent from
\* every component map, tag set and relation source set, no live entity
\* records x as its current target, and no id other than x has left the
\* live set.
C4_CascadeDelete ==
    [][(last'.op = "delete_entity" /\ last'.err = "none") =>
          \A w \in Worlds : \A x \in Ids :
            delete_entity(w, x)
              => /\ AbsentFromTables(worlds'[w], x)
                 /\ NoLiveSourceOf(worlds'[w], x)
                 /\ worlds'[w].entities = worlds[w].entities \ {x}]_vars

\* k is in the per-entity component set of e (no set: holds nothing)
HoldsComp(W, e, k) == e \in DOMAIN W.eid_comps /\ k \in W.eid_comps[e]

\* e is a key of components[k]
InCompTable(W, e, k) == k \in DOMAIN W.components /\ e \in DOMAIN W.components[k]

\* C5: component index consistency. After every call, for every live
\* entity e and component key k: e is a key of components[k] exactly when
\* k is in eid_comps[e].
C5_ComponentIndexConsistency ==
    \A w \in Worlds : \A e \in worlds[w].entities, k \in CompKeys :
        InCompTable(worlds[w], e, k) <=> HoldsComp(worlds[w], e, k)

\* a set has just stored a component on a live entity
C5_Witness ==
    /\ last.op = "set"
    /\ last.err = "none"
    /\ \E w \in Worlds : \E e \in worlds[w].entities, k \in CompKeys :
          InCompTable(worlds[w], e, k) /\ HoldsComp(worlds[w], e, k)

\* t is in the per-entity tag set of e (no set: has no tag)
HasTag(W, e, t) == e \in DOMAIN W.eid_tags /\ t \in W.eid_tags[e]

\* e is a member of tags[t]
InTagTable(W, e, t) == t \in DOMAIN W.tags /\ e \in W.tags[t]

\* C6: tag index consistency. After every call, for every live entity e
\* and tag t: e is a member of tags[t] exactly when t is in eid_tags[e].
C6_TagIndexConsistency ==
    \A w \in Worlds : \A e \in worlds[w].entities, t \in Tags :
        InTagTable(worlds[w], e, t) <=> HasTag(worlds[w], e, t)

\* an untag has just removed the tag of one entity while another keeps it
C6_Witness ==
    /\ last.op = "untag"
    /\ last.err = "none"
    /\ \E w \in Worlds : \E e1 \in worlds[w].entities,
                            e2 \in worlds[w].entities, t \in Tags :
          /\ InTagTable(worlds[w], e1, t) /\ HasTag(worlds[w], e1, t)
          /\ ~InTagTable(worlds[w], e2, t) /\ ~HasTag(worlds[w], e2, t)

\* the live ids that hold every key of comps, have every tag of tags and
\* record the target t for every <<r, t>> of rels
Matching(W, comps, tags, rels) ==
    {e \in W.entities :
        /\ \A i \in 1..Len(comps) : HoldsComp(W, e, comps[i])
        /\ \A i \in 1..Len(tags) : HasTag(W, e, tags[i])
        /\ \A i \in 1..Len(rels) : Target(W, e, rels[i][1]) = rels[i][2]}

\* the argument lists a query is called with
QueryArgs ==
    {a \in ListsOver(CompKeys) \X ListsOver(Tags)
             \X ListsOver(RelNames \X Ids) :
        Len(a[1]) + Len(a[2]) + Len(a[3]) <= MaxQueryLen}

\* C7: query conjunction. In every reachable state a query with at least
\* one criterion returns exactly the live ids that satisfy all criteria
\* according to the per-entity records.
C7_QueryConjunction ==
    \A w \in Worlds : \A a \in QueryArgs :
        Len(a[1]) + Len(a[2]) + Len(a[3]) >= 1
          => LET o == World_query(worlds[w], a[1], a[2], a[3])
             IN  o.err = "none"
                 /\ o.ret = Matching(worlds[w], a[1], a[2], a[3])

\* C8: degenerate query. A query with no component, tag or relation
\* criteria returns (the empty set) and does not raise.
C8_DegenerateQuery ==
    [][\A w \in Worlds :
          query(w, <<>>, <<>>, <<>>) => last'.err = "none"]_vars

\* C9: deleting a non-live id fails with NameError (the not-found error)
\* and leaves the live set, next_id and all six tables unchanged.
C9_DeleteNonLive ==
    [][last'.op = "delete_entity" =>
          \A w \in Worlds : \A id \in Ids :
            (id \notin worlds[w].entities /\ delete_entity(w, id))
              => last'.err = "NameError" /\ worlds' = worlds]_vars

\* a delete_entity has just failed with NameError while no id is live, so
\* the id it was given was not live; entities had been created before
C9_Witness ==
    /\ last.op = "delete_entity"
    /\ last.err = "NameError"
    /\ \E w \in Worlds :
          /\ worlds[w].entities = {}
          /\ worlds[w].next_id > 0
          /\ worlds[w].relations # EmptyMap

\* C10: handle lifecycle. Entity(e, W) succeeds right after create_entity
\* returned e and stops succeeding only in a step that is a
\* delete_entity(e); it raises NameError right after delete_entity(e)
\* returned, and at any later time.
C10_HandleLifecycle ==
    [][\A w \in Worlds : \A e \in Ids :
          /\ (e = worlds[w].next_id /\ last'.op = "create_entity"
              /\ create_entity(w))
                => Entity_init(worlds'[w], e).err = "none"
          /\ (Entity_init(worlds[w], e).err = "none"
              /\ Entity_init(worlds'[w], e).err # "none")
                => delete_entity(w, e)
          /\ (last'.op = "delete_entity" /\ last'.err = "none"
              /\ delete_entity(w, e))
                => Entity_init(worlds'[w], e).err = "NameError"
          /\ (e < worlds[w].next_id
              /\ Entity_init(worlds[w], e).err = "NameError")
                => Entity_init(worlds'[w], e).err = "NameError"]_vars

\* a delete_entity has just returned, and constructing a handle for an id
\* that create_entity had returned now raises NameError
C10_Witness ==
    /\ last.op = "delete_entity"
    /\ last.err = "none"
    /\ \E w \in Worlds : \E e \in Handles(w) :
          Entity_init(worlds[w], e).err = "NameError"

\* C11: ids are never reused. next_id never decreases and changes only in
\* create_entity, which returns the old next_id (an id above every id
\* returned before, none of which is live or recorded under that id),
\* makes it live and advances next_id by one; every live id is below
\* next_id.
C11_IdsNeverReused ==
    [][\A w \in Worlds :
          /\ worlds'[w].next_id >= worlds[w].next_id
          /\ \A e \in worlds'[w].entities : e < worlds'[w].next_id
          /\ (worlds'[w].next_id # worlds[w].next_id
              \/ (last'.op = "create_entity" /\ create_entity(w)))
                => LET eid == worlds[w].next_id
                   IN  /\ create_entity(w)
                       /\ worlds'[w].next_id = eid + 1
                       /\ eid \notin worlds[w].entities
                       /\ eid \notin DOMAIN worlds[w].eid_rels
                       /\ worlds'[w].entities = worlds[w].entities \cup {eid}
      ]_vars

\* a create_entity has just returned id 1 after id 0 was deleted
C11_Witness ==
    /\ last.op = "create_entity"
    /\ \E w \in Worlds :
          /\ worlds[w].next_id = 2
          /\ worlds[w].entities = {1}

\* C12: unrelate error conditions. unrelate(e, r, target_id) raises
\* whenever target_id is not live or e's recorded target for r is not
\* target_id (no recorded target included); it returns only when e's
\* recorded target for r is target_id.
C12_UnrelateErrors ==
    [][last'.op = "unrelate" =>
          \A w \in Worlds : \A e \in Handles(w), r \in RelNames, t \in Ids :
            (unrelate(w, e, r, t)
             /\ (t \notin worlds[w].entities \/ Target(worlds[w], e, r) # t))
                => last'.err # "none"]_vars

\* ------------------------------------------------- two registries
\* The program has built two registries; the global name `world` denotes
\* registry 1, and registry 2 is another one.  The calls are those of the
\* relation graph and the entity lifecycle.
InitTwo ==
    /\ worlds = [w \in {1, 2} |-> World_init]
    /\ world = 1
    /\ last = Call("init", "none")

NextTwo ==
    \/ \E w \in Worlds : create_entity(w)
    \/ \E w \in Worlds, eid \in Ids : delete_entity(w, eid)
    \/ \E w \in Worlds : \E eid \in Handles(w), r \in RelNames,
          other_id \in Ids : relate(w, eid, r, other_id)
    \/ \E w \in Worlds : \E eid \in Handles(w), r \in RelNames,
          other_id \in Ids : unrelate(w, eid, r, other_id)

SpecTwo == InitTwo /\ [][NextTwo]_vars

\* C13: own-registry validation. With two registries, relate and unrelate
\* through a handle of registry w raise NameError (target not found)
\* exactly when target_id is not live in w, whatever is live in the other
\* registry or in the one `world` denotes; and delete_entity on w changes
\* no other registry.
C13_OwnRegistryValidation ==
    [][\A w \in Worlds :
          /\ last'.op \in {"relate", "unrelate"} =>
                \A e \in Handles(w), r \in RelNames, t \in Ids :
                  (relate(w, e, r, t) \/ unrelate(w, e, r, t))
                    => (last'.err = "NameError"
                          <=> t \notin worlds[w].entities)
          /\ last'.op = "delete_entity" =>
                \A x \in Ids :
                  delete_entity(w, x)
                    => \A w2 \in Worlds \ {w} : worlds'[w2] = worlds[w2]
      ]_vars

\* C14: tagging is idempotent and untagging is exact. tag(e, t) on an
\* entity that has t changes nothing; untag(e, t) on an entity that does
\* not have t changes nothing; untag(e, t) on an entity that has t returns
\* with t out of eid_tags[e] and e out of tags[t], the other members of
\* tags[t] kept, and the key t gone from tags exactly when no member is
\* left.
C14_TagIdempotentUntagExact ==
    [][last'.op \in {"tag", "untag"} =>
          \A w \in Worlds : \A e \in Handles(w), t \in Tags :
            LET W == worlds[w]
                V == worlds'[w]
            IN  /\ (HasTag(W, e, t) /\ tag(w, e, t))
                      => (last'.err = "none" /\ worlds' = worlds)
                /\ (~HasTag(W, e, t) /\ untag(w, e, t)) => worlds' = worlds
                /\ (HasTag(W, e, t) /\ untag(w, e, t))
                      => /\ last'.err = "none"
                         /\ V.eid_tags = [W.eid_tags EXCEPT ![e] = @ \ {t}]
                         /\ IF W.tags[t] \ {e} = {}
                            THEN V.tags = Del(W.tags, t)
                            ELSE V.tags = [W.tags EXCEPT ![t] = @ \ {e}]
      ]_vars

\* an untag has just returned and left no bucket for the tag, while the
\* registry has a live entity
C14_Witness ==
    /\ last.op = "untag"
    /\ last.err = "none"
    /\ \E w \in Worlds :
          /\ worlds[w].entities # {}
          /\ worlds[w].tags = EmptyMap
          /\ \A e \in worlds[w].entities, t \in Tags : ~HasTag(worlds[w], e, t)

\* C15: referential integrity. In every reachable state every id that
\* appears in the tables -- a holder in components[k], a member of tags[t],
\* a source in relations[r][t], a target key t of relations[r], or a current
\* target recorded in eid_rels[e][r] -- is in the live entity set.
C15_ReferentialIntegrity ==
    \A w \in Worlds :
      LET W == worlds[w]
      IN  /\ \A k \in DOMAIN W.components : DOMAIN W.components[k] \subseteq W.entities
          /\ \A t \in DOMAIN W.tags : W.tags[t] \subseteq W.entities
          /\ \A r \in DOMAIN W.relations :
                /\ DOMAIN W.relations[r] \subseteq W.entities
                /\ \A t \in DOMAIN W.relations[r] : W.relations[r][t] \subseteq W.entities
          /\ \A e \in DOMAIN W.eid_rels : \A r \in DOMAIN W.eid_rels[e] :
                W.eid_rels[e][r] \in W.entities

\* C16: no empty tag buckets. In every reachable state every tag key present
\* in the tags table maps to a non-empty set of entity ids.
C16_NoEmptyTagBuckets ==
    \A w \in Worlds : \A t \in DOMAIN worlds[w].tags : worlds[w].tags[t] # {}

\* C17: relate prunes the old target bucket. When relate(e, r, new_target)
\* returns after detaching e from its previous target, relations[r] holds
\* no empty bucket for that previous target: the key is gone when e was its
\* last source.
C17_RelatePrunesOldBucket ==
    [][(last'.op = "relate" /\ last'.err = "none" /\ last'.old_target # -1) =>
          \A w \in Worlds : \A e \in Handles(w), r \in RelNames, t \in Ids :
            (relate(w, e, r, t) /\ Target(worlds[w], e, r) = last'.old_target)
               => LET old == last'.old_target
                      V == worlds'[w]
                  IN  (r \in DOMAIN V.relations /\ old \in DOMAIN V.relations[r])
                         => V.relations[r][old] # {}
      ]_vars

\* C18: a failed unrelate changes nothing. Whenever unrelate(e, r, target_id)
\* raises, the per-entity relation records and every source set of relations
\* are the same after the call as before it; in particular the current
\* target e records for r is not cleared.
C18_FailedUnrelateChangesNothing ==
    [][(last'.op = "unrelate" /\ last'.err # "none") =>
          \A w \in Worlds :
            /\ worlds'[w].eid_rels = worlds[w].eid_rels
            /\ \A r \in RelNames, t \in Ids :
                  Bucket(worlds'[w], r, t) = Bucket(worlds[w], r, t)
      ]_vars

\* the per-entity records of eid all exist
HasRecords(W, eid) ==
    /\ eid \in DOMAIN W.eid_comps
    /\ eid \in DOMAIN W.eid_tags
    /\ eid \in DOMAIN W.eid_rels

\* C19: delete_entity fails only with not-found. In every reachable state
\* delete_entity(id) on a live id returns without error and leaves id
\* non-live with no per-entity record; and no step leaves a live id
\* half-deleted, in the live set without its eid_comps, eid_tags and
\* eid_rels records.
C19_DeleteLiveSucceeds ==
    [][\A w \in Worlds :
          /\ \A e \in worlds'[w].entities : HasRecords(worlds'[w], e)
          /\ last'.op = "delete_entity" =>
                \A x \in worlds[w].entities :
                  delete_entity(w, x)
                     => /\ last'.err = "none"
                        /\ x \notin worlds'[w].entities
                        /\ x \notin DOMAIN worlds'[w].eid_comps
                        /\ x \notin DOMAIN worlds'[w].eid_tags
                        /\ x \notin DOMAIN worlds'[w].eid_rels
      ]_vars

\* the step is a mutating call through a handle of eid in registry w
MutatesThrough(w, eid) ==
    \/ \E c \in CompKeys, v \in Values : set(w, eid, c, v)
    \/ \E c \in CompKeys : remove(w, eid, c)
    \/ \E t \in Tags : tag(w, eid, t) \/ untag(w, eid, t)
    \/ \E r \in RelNames, t \in Ids : relate(w, eid, r, t) \/ unrelate(w, eid, r, t)

\* eid is in no more places of V than of W: not live, without per-entity
\* records, and in a component map, tag set, source set or current-target
\* record only where it already was
NotInserted(W, V, eid) ==
    /\ eid \notin V.entities
    /\ eid \notin DOMAIN V.eid_comps \cup DOMAIN V.eid_tags \cup DOMAIN V.eid_rels
    /\ \A c \in DOMAIN V.components :
          eid \in DOMAIN V.components[c]
             => (c \in DOMAIN W.components /\ eid \in DOMAIN W.components[c])
    /\ \A t \in DOMAIN V.tags :
          eid \in V.tags[t] => (t \in DOMAIN W.tags /\ eid \in W.tags[t])
    /\ \A r \in RelNames, t \in Ids :
          eid \in Bucket(V, r, t) => eid \in Bucket(W, r, t)
    /\ \A x \in DOMAIN V.eid_rels : \A r \in DOMAIN V.eid_rels[x] :
          V.eid_rels[x][r] = eid => Target(W, x, r) = eid

\* C20: stale handles cannot mutate. Once delete_entity(e.id) has returned,
\* every set, remove, tag, untag, relate and unrelate through a handle of e
\* raises, and none of them puts e.id back in the live set or into a
\* component map, tag set, relation source set or current-target record.
C20_StaleHandlesCannotMutate ==
    [][last'.op \in {"set", "remove", "tag", "untag", "relate", "unrelate"} =>
          \A w \in Worlds : \A e \in Handles(w) \ worlds[w].entities :
            MutatesThrough(w, e)
               => /\ last'.err # "none"
                  /\ NotInserted(worlds[w], worlds'[w], e)
      ]_vars

\* a set through the handle of a deleted entity has just raised: every
\* live entity has its records, so the handle that failed is a stale one
C20_Witness ==
    /\ last.op = "set"
    /\ last.err = "KeyError"
    /\ \E w \in Worlds :
          /\ Handles(w) \ worlds[w].entities # {}
          /\ \A e \in worlds[w].entities : HasRecords(worlds[w], e)

====
